---------------------------- MODULE Spec2Model ----------------------------
(***************************************************************************)
(* Model of pullRun (cmd/internal/cli/pull.go), the orchestration of       *)
(* `singularity pull`: cache handle, locator classification, destination   *)
(* resolution and existence check, transport switch, backend invocation    *)
(* and outcome reporting.                                                  *)
(*                                                                         *)
(* Go strings that the code takes apart (locators, paths) are sequences of *)
(* tokens; the empty string is the empty sequence.  Strings that are only  *)
(* compared or concatenated (transport, host, endpoint URI) are TLA+       *)
(* strings.                                                                *)
(***************************************************************************)
EXTENDS Naturals, Sequences, FiniteSets, TLC

VARIABLES
    args,            \* positional arguments of the command (1 or 2)
    pullImageName,   \* --name
    pullDir,         \* --dir
    forceOverwrite,  \* --force
    pullLibraryURI,  \* --library
    noHTTPS,         \* --nohttps
    pc,              \* position in pullRun
    imgCache,        \* result of getCacheHandle
    pullFrom,        \* the locator
    transport,       \* first result of uri.Split
    ref,             \* second result of uri.Split
    pullTo,          \* the destination path
    statErr,         \* result of os.Stat(pullTo)
    libRef,          \* result of library.NormalizeLibraryRef
    libraryURI,      \* argument of getLibraryClientConfig
    pullErr,         \* error returned by the backend's PullToFile
    calls,           \* backend PullToFile invocations of this run, in order
    trace,           \* steps of this run, in order
    outcome,         \* "running", "ok" (pullRun returned) or "fatal" (sylog.Fatalf)
    msg,             \* the Fatalf diagnostic
    warnings         \* the Warningf messages, in order

flags == <<args, pullImageName, pullDir, forceOverwrite, pullLibraryURI, noHTTPS>>
locals == <<imgCache, pullFrom, transport, ref, pullTo, statErr, libRef, libraryURI>>
vars == <<args, pullImageName, pullDir, forceOverwrite, pullLibraryURI, noHTTPS,
          pc, imgCache, pullFrom, transport, ref, pullTo, statErr, libRef,
          libraryURI, pullErr, calls, trace, outcome, msg, warnings>>

----------------------------------------------------------------------------
(* Bounds and input alphabets *)

MaxRefLen == 2

LibraryProtocol == "library"
ShubProtocol == "shub"
HTTPProtocol == "http"
HTTPSProtocol == "https"
OrasProtocol == "oras"

Sep == "://"
Segs == {"host.io", "img", "%"}
Hosts == {"host.io"}
OciTransports == {"docker"}
Prefixes == {LibraryProtocol, ShubProtocol, HTTPProtocol, HTTPSProtocol,
             OrasProtocol, "docker", "ftp"}

Bodies == UNION {[1..n -> Segs] : n \in 0..MaxRefLen}
Locators == Bodies \cup {<<t, Sep>> \o b : t \in Prefixes, b \in Bodies}
OutputNames == {<<"out.sif">>}
ImageNames == {<<>>, <<"name.sif">>}
Dirs == {<<>>, <<"dir">>, <<".", "dir">>}
LibraryURIs == {"", "https://other"}
Errs == {"nil", "ErrLibraryPullUnsigned", "error"}
StatErrs == {"nil", "ErrNotExist", "EACCES"}

\* the diagnostics of pullRun
CacheHandleFormat == "Failed to create an image cache handle"
BadURIFormat == "Bad URI %s"
AlreadyExistsFormat == "Image file already exists: %q - will not overwrite"
MalformedFormat == "Malformed library reference: %v"
ConflictFormat == "Conflicting arguments; do not use --library with a library URI containing host name"
LibraryConfigFormat == "Unable to get library client configuration: %v"
KeyserverFormat == "Unable to get keyserver client configuration: %v"
LibraryPullFormat == "While pulling library image: %v"
ShubPullFormat == "While pulling shub image: %v\n"
OrasCredentialsFormat == "Unable to make docker oci credentials: %s"
OrasPullFormat == "While pulling image from oci registry: %v"
NetPullFormat == "While pulling from image from http(s): %v\n"
OciCredentialsFormat == "While creating Docker credentials: %v"
OciPullFormat == "While making image from oci registry: %v"
UnsupportedFormat == "Unsupported transport type: %s"
SkippingFormat == "Skipping container verification"

NoRef == [err |-> "nil", Host |-> "", Path |-> <<>>]
NoMsg == [format |-> "", arg |-> <<>>]

----------------------------------------------------------------------------
(* Helpers called by pullRun *)

Last(s) == s[Len(s)]

RECURSIVE Clean(_)
Clean(p) ==
    IF p = <<>> THEN <<>>
    ELSE IF Head(p) = "." THEN Clean(Tail(p))
    ELSE <<Head(p)>> \o Clean(Tail(p))

\* filepath.Join: the elements joined with a separator, the result cleaned
Join(dir, name) == Clean(dir \o name)

\* uri.Split: transport and reference body of a locator
Split(uri) ==
    IF Len(uri) >= 2 /\ uri[2] = Sep
    THEN <<uri[1], SubSeq(uri, 3, Len(uri))>>
    ELSE <<"", uri>>

\* uri.GetName: the file name derived from a locator
GetName(uri) ==
    LET body == Split(uri)[2]
    IN  IF body = <<>> THEN <<"image.sif">> ELSE <<Last(body) \o "_latest.sif">>

\* oci.IsSupported: the transport itself when it is an OCI one, "" otherwise
IsSupported(t) == IF t \in OciTransports THEN t ELSE ""

\* library.NormalizeLibraryRef
NormalizeLibraryRef(uri) ==
    LET body == Split(uri)[2]
    IN  IF body = <<>> \/ \E i \in 1..Len(body) : body[i] = "%"
        THEN [err |-> "error", Host |-> "", Path |-> <<>>]
        ELSE IF Len(body) > 1 /\ body[1] \in Hosts
        THEN [err |-> "nil", Host |-> body[1], Path |-> Tail(body)]
        ELSE [err |-> "nil", Host |-> "", Path |-> body]

----------------------------------------------------------------------------
(* Decisions of pullRun *)

\* variant: the empty reference is let through
BadURI_Never(r) == FALSE

\* pull.go 195: the reference is rejected
BadURI(r) == r = <<>>

\* variant: a positional output name wins over --name
DestinationName_PositionalFirst(a, name, t, from) ==
    IF Len(a) = 2 THEN a[1]
    ELSE IF name # <<>> THEN name
    ELSE IF t = "" THEN GetName(<<LibraryProtocol, Sep>> \o from)
    ELSE GetName(from)

\* pull.go 199-209: the destination file name
DestinationName(a, name, t, from) ==
    IF name # <<>> THEN name
    ELSE IF Len(a) = 1
         THEN IF t = "" THEN GetName(<<LibraryProtocol, Sep>> \o from)
                        ELSE GetName(from)
         ELSE a[1]

\* pull.go 211-213: the destination path
DestinationPath(dir, name) == IF dir # <<>> THEN Join(dir, name) ELSE name

\* variant: the overwrite flag is read the wrong way round
WillNotOverwrite_Inverted(err, force) == err # "ErrNotExist" /\ force

\* variant: only a stat that succeeds counts as an existing file
WillNotOverwrite_NilOnly(err, force) == err = "nil" /\ ~force

\* pull.go 216-221: the destination is refused
WillNotOverwrite(err, force) == err # "ErrNotExist" /\ ~force

\* variant: the switch has no default case, the OCI case takes the rest
SwitchCase_NoDefault(t) ==
    IF t = LibraryProtocol \/ t = "" THEN "library"
    ELSE IF t = ShubProtocol THEN "shub"
    ELSE IF t = OrasProtocol THEN "oras"
    ELSE IF t = HTTPProtocol \/ t = HTTPSProtocol THEN "net"
    ELSE "oci"

\* variant: the shub and oras cases are exchanged
SwitchCase_Exchanged(t) ==
    IF t = LibraryProtocol \/ t = "" THEN "library"
    ELSE IF t = ShubProtocol THEN "oras"
    ELSE IF t = OrasProtocol THEN "shub"
    ELSE IF t = HTTPProtocol \/ t = HTTPSProtocol THEN "net"
    ELSE IF t = IsSupported(t) THEN "oci"
    ELSE "default"

\* pull.go 223-309: the case the switch on transport selects
SwitchCase(t) ==
    IF t = LibraryProtocol \/ t = "" THEN "library"
    ELSE IF t = ShubProtocol THEN "shub"
    ELSE IF t = OrasProtocol THEN "oras"
    ELSE IF t = HTTPProtocol \/ t = HTTPSProtocol THEN "net"
    ELSE IF t = IsSupported(t) THEN "oci"
    ELSE "default"

\* variant: the conflict is not detected, --library takes precedence
ConflictingArguments_Never(uri, host) == FALSE

\* pull.go 230: --library together with a host in the reference
ConflictingArguments(uri, host) == uri # "" /\ host # ""

\* variant: the schemes of the two --nohttps branches are exchanged
LibraryURI_SchemesExchanged(uri, host, nohttps) ==
    IF uri # "" THEN uri
    ELSE IF host # ""
         THEN IF nohttps THEN "https://" \o host ELSE "http://" \o host
         ELSE ""

\* pull.go 234-244: the endpoint handed to getLibraryClientConfig
LibraryURI(uri, host, nohttps) ==
    IF uri # "" THEN uri
    ELSE IF host # ""
         THEN IF nohttps THEN "http://" \o host ELSE "https://" \o host
         ELSE ""

\* variant: the unsigned sentinel is not exempted
LibraryPullFatal_NoExemption(err) == err # "nil"

\* pull.go 264: the error of library.PullToFile is fatal
LibraryPullFatal(err) == err # "nil" /\ err # "ErrLibraryPullUnsigned"

\* pull.go 267: the error of library.PullToFile is only warned about
LibraryPullWarning(err) == err = "ErrLibraryPullUnsigned"

\* pull.go 272, 282, 287, 306: the error of the other backends is fatal
BackendFatal(err) == err # "nil"

\* variant: the stat of the destination is left out
Following_NoStat(p) ==
    CASE p = "getCacheHandle" -> "Split"
      [] p = "Split" -> "pullTo"
      [] p = "pullTo" -> "switch"
      [] p = "Stat" -> "switch"

\* pull.go 188-223: the statement that follows a statement of the prologue
Following(p) ==
    CASE p = "getCacheHandle" -> "Split"
      [] p = "Split" -> "pullTo"
      [] p = "pullTo" -> "Stat"
      [] p = "Stat" -> "switch"

----------------------------------------------------------------------------
(* Effects *)

\* sylog.Fatalf: the diagnostic is printed and the process exits
Fatalf(steps, format, arg) ==
    /\ pc' = "exit"
    /\ outcome' = "fatal"
    /\ msg' = [format |-> format, arg |-> arg]
    /\ trace' = trace \o steps \o <<"report">>

\* control moves on to statement p
Goto(steps, p) ==
    /\ pc' = p
    /\ trace' = trace \o steps
    /\ UNCHANGED <<outcome, msg>>

\* pullRun returns
Return(steps) ==
    /\ pc' = "exit"
    /\ outcome' = "ok"
    /\ trace' = trace \o steps \o <<"report">>
    /\ UNCHANGED msg

\* a backend's PullToFile is entered
Invoke(adapter, from) ==
    calls' = Append(calls, [adapter |-> adapter, pullTo |-> pullTo, from |-> from])

----------------------------------------------------------------------------
Init ==
    /\ \E from \in Locators :
          args \in {<<from>>} \cup {<<to, from>> : to \in OutputNames}
    /\ pullImageName \in ImageNames
    /\ pullDir \in Dirs
    /\ forceOverwrite \in BOOLEAN
    /\ pullLibraryURI \in LibraryURIs
    /\ noHTTPS \in BOOLEAN
    /\ pc = "getCacheHandle"
    /\ imgCache = "unset"
    /\ pullFrom = <<>>
    /\ transport = ""
    /\ ref = <<>>
    /\ pullTo = <<>>
    /\ statErr = "unset"
    /\ libRef = NoRef
    /\ libraryURI = ""
    /\ pullErr = "unset"
    /\ calls = <<>>
    /\ trace = <<>>
    /\ outcome = "running"
    /\ msg = NoMsg
    /\ warnings = <<>>

\* pull.go 188-191
GetCacheHandle ==
    /\ pc = "getCacheHandle"
    /\ \E h \in {"nil", "handle"} :
          /\ imgCache' = h
          /\ IF h = "nil"
             THEN Fatalf(<<"cache">>, CacheHandleFormat, <<>>)
             ELSE Goto(<<"cache">>, Following(pc))
    /\ UNCHANGED <<flags, pullFrom, transport, ref, pullTo, statErr, libRef,
                   libraryURI, pullErr, calls, warnings>>

\* pull.go 193-197
SplitLocator ==
    /\ pc = "Split"
    /\ pullFrom' = Last(args)
    /\ transport' = Split(pullFrom')[1]
    /\ ref' = Split(pullFrom')[2]
    /\ IF BadURI(ref')
       THEN Fatalf(<<"classify">>, BadURIFormat, pullFrom')
       ELSE Goto(<<"classify">>, Following(pc))
    /\ UNCHANGED <<flags, imgCache, pullTo, statErr, libRef, libraryURI,
                   pullErr, calls, warnings>>

\* pull.go 199-213
ResolveDestination ==
    /\ pc = "pullTo"
    /\ pullTo' = DestinationPath(pullDir,
                    DestinationName(args, pullImageName, transport, pullFrom))
    /\ Goto(<<"resolve">>, Following(pc))
    /\ UNCHANGED <<flags, imgCache, pullFrom, transport, ref, statErr, libRef,
                   libraryURI, pullErr, calls, warnings>>

\* pull.go 215-221
StatDestination ==
    /\ pc = "Stat"
    /\ \E err \in StatErrs :
          /\ statErr' = err
          /\ IF WillNotOverwrite(err, forceOverwrite)
             THEN Fatalf(<<"stat">>, AlreadyExistsFormat, pullTo)
             ELSE Goto(<<"stat">>, Following(pc))
    /\ UNCHANGED <<flags, imgCache, pullFrom, transport, ref, pullTo, libRef,
                   libraryURI, pullErr, calls, warnings>>

\* pull.go 224-244
LibraryNormalize ==
    /\ pc = "switch"
    /\ SwitchCase(transport) = "library"
    /\ libRef' = NormalizeLibraryRef(pullFrom)
    /\ IF libRef'.err # "nil"
       THEN /\ Fatalf(<<"switch", "normalize">>, MalformedFormat, <<libRef'.err>>)
            /\ UNCHANGED libraryURI
       ELSE IF ConflictingArguments(pullLibraryURI, libRef'.Host)
       THEN /\ Fatalf(<<"switch", "normalize">>, ConflictFormat,
                      <<>>)
            /\ UNCHANGED libraryURI
       ELSE /\ libraryURI' = LibraryURI(pullLibraryURI, libRef'.Host, noHTTPS)
            /\ Goto(<<"switch", "normalize">>, "getLibraryClientConfig")
    /\ UNCHANGED <<flags, imgCache, pullFrom, transport, ref, pullTo, statErr,
                   pullErr, calls, warnings>>

\* pull.go 246-249
GetLibraryClientConfig ==
    /\ pc = "getLibraryClientConfig"
    /\ \E err \in {"nil", "error"} :
          IF err # "nil"
          THEN Fatalf(<<>>, LibraryConfigFormat, <<err>>)
          ELSE Goto(<<>>, "getKeyserverClientOpts")
    /\ UNCHANGED <<flags, locals, pullErr, calls, warnings>>

\* pull.go 250-253
GetKeyserverClientOpts ==
    /\ pc = "getKeyserverClientOpts"
    /\ \E err \in {"nil", "error"} :
          IF err # "nil"
          THEN Fatalf(<<>>, KeyserverFormat, <<err>>)
          ELSE Goto(<<>>, "library.PullToFile")
    /\ UNCHANGED <<flags, locals, pullErr, calls, warnings>>

\* pull.go 255-269
LibraryPull ==
    /\ pc = "library.PullToFile"
    /\ Invoke("library", libRef.Path)
    /\ \E err \in Errs :
          /\ pullErr' = err
          /\ IF LibraryPullFatal(err)
             THEN /\ Fatalf(<<"invoke">>, LibraryPullFormat, <<err>>)
                  /\ UNCHANGED warnings
             ELSE /\ Return(<<"invoke">>)
                  /\ warnings' = IF LibraryPullWarning(err)
                                 THEN Append(warnings, SkippingFormat)
                                 ELSE warnings
    /\ UNCHANGED <<flags, locals>>

\* pull.go 270-274
ShubPull ==
    /\ pc = "switch"
    /\ SwitchCase(transport) = "shub"
    /\ Invoke("shub", pullFrom)
    /\ \E err \in Errs :
          /\ pullErr' = err
          /\ IF BackendFatal(err)
             THEN Fatalf(<<"switch", "invoke">>, ShubPullFormat, <<err>>)
             ELSE Return(<<"switch", "invoke">>)
    /\ UNCHANGED <<flags, locals, warnings>>

\* pull.go 275-279
OrasCredentials ==
    /\ pc = "switch"
    /\ SwitchCase(transport) = "oras"
    /\ \E err \in {"nil", "error"} :
          IF err # "nil"
          THEN Fatalf(<<"switch">>, OrasCredentialsFormat, <<err>>)
          ELSE Goto(<<"switch">>, "oras.PullToFile")
    /\ UNCHANGED <<flags, locals, pullErr, calls, warnings>>

\* pull.go 281-284
OrasPull ==
    /\ pc = "oras.PullToFile"
    /\ Invoke("oras", pullFrom)
    /\ \E err \in Errs :
          /\ pullErr' = err
          /\ IF BackendFatal(err)
             THEN Fatalf(<<"invoke">>, OrasPullFormat, <<err>>)
             ELSE Return(<<"invoke">>)
    /\ UNCHANGED <<flags, locals, warnings>>

\* pull.go 285-289
NetPull ==
    /\ pc = "switch"
    /\ SwitchCase(transport) = "net"
    /\ Invoke("net", pullFrom)
    /\ \E err \in Errs :
          /\ pullErr' = err
          /\ IF BackendFatal(err)
             THEN Fatalf(<<"switch", "invoke">>, NetPullFormat, <<err>>)
             ELSE Return(<<"switch", "invoke">>)
    /\ UNCHANGED <<flags, locals, warnings>>

\* pull.go 290-294
OciCredentials ==
    /\ pc = "switch"
    /\ SwitchCase(transport) = "oci"
    /\ \E err \in {"nil", "error"} :
          IF err # "nil"
          THEN Fatalf(<<"switch">>, OciCredentialsFormat, <<err>>)
          ELSE Goto(<<"switch">>, "oci.PullToFile")
    /\ UNCHANGED <<flags, locals, pullErr, calls, warnings>>

\* pull.go 296-308
OciPull ==
    /\ pc = "oci.PullToFile"
    /\ Invoke("oci", pullFrom)
    /\ \E err \in Errs :
          /\ pullErr' = err
          /\ IF BackendFatal(err)
             THEN Fatalf(<<"invoke">>, OciPullFormat, <<err>>)
             ELSE Return(<<"invoke">>)
    /\ UNCHANGED <<flags, locals, warnings>>

\* pull.go 309-311
UnsupportedTransport ==
    /\ pc = "switch"
    /\ SwitchCase(transport) = "default"
    /\ Fatalf(<<"switch">>, UnsupportedFormat, <<transport>>)
    /\ UNCHANGED <<flags, locals, pullErr, calls, warnings>>

Next ==
    \/ GetCacheHandle
    \/ SplitLocator
    \/ ResolveDestination
    \/ StatDestination
    \/ LibraryNormalize
    \/ GetLibraryClientConfig
    \/ GetKeyserverClientOpts
    \/ LibraryPull
    \/ ShubPull
    \/ OrasCredentials
    \/ OrasPull
    \/ NetPull
    \/ OciCredentials
    \/ OciPull
    \/ UnsupportedTransport

Spec == Init /\ [][Next]_vars

TypeOK ==
    /\ pc \in {"getCacheHandle", "Split", "pullTo", "Stat", "switch",
               "getLibraryClientConfig", "getKeyserverClientOpts",
               "library.PullToFile", "oras.PullToFile", "oci.PullToFile", "exit"}
    /\ outcome \in {"running", "ok", "fatal"}
    /\ (pc = "exit") = (outcome # "running")
    /\ Len(args) \in {1, 2}

----------------------------------------------------------------------------
(* Properties of a run *)

Steps == {trace[i] : i \in 1..Len(trace)}
Count(step) == Cardinality({i \in 1..Len(trace) : trace[i] = step})
Before(a, b) ==
    \A j \in 1..Len(trace) : trace[j] = b => \E i \in 1..(j - 1) : trace[i] = a
Exited == pc = "exit"
ReachedSwitch == pc = "switch" \/ "switch" \in Steps
Fatal(format, arg) == outcome = "fatal" /\ msg = [format |-> format, arg |-> arg]
Locator == Last(args)

\* C1: when the stat of the resolved destination finds a file and the
\* overwrite flag is false, the run has ended fatally with the 'already
\* exists' diagnostic naming that path and no backend adapter has been
\* invoked; the existence check is never made twice, has been made exactly
\* once in every run that resolved a destination and went on, and precedes
\* the transport switch and every invocation.
C1_ExistingDestinationRefused ==
    /\ (statErr = "nil" /\ ~forceOverwrite) =>
          /\ Exited
          /\ Fatal(AlreadyExistsFormat, pullTo)
          /\ calls = <<>>
          /\ ~ReachedSwitch
    /\ Count("stat") <= 1
    /\ (ReachedSwitch \/ calls # <<>>) => Count("stat") = 1
    /\ ("resolve" \in Steps /\ Exited) => Count("stat") = 1
    /\ Before("stat", "switch")
    /\ Before("stat", "invoke")

C1_Witness ==
    /\ statErr = "nil"
    /\ ~forceOverwrite
    /\ Fatal(AlreadyExistsFormat, <<"dir", "name.sif">>)
    /\ transport = "docker"

\* The file name the claim C2 expects: the locator is the first positional
\* argument and the local name the second.
C2_ClaimedName ==
    IF pullImageName # <<>> THEN pullImageName
    ELSE IF Len(args) = 2 THEN args[2]
    ELSE IF Split(args[1])[1] = "" THEN GetName(<<LibraryProtocol, Sep>> \o args[1])
    ELSE GetName(args[1])

\* The file name of the amended C2: the local name is the first positional
\* argument and the locator the last.
C2_AmendedName ==
    IF pullImageName # <<>> THEN pullImageName
    ELSE IF Len(args) = 2 THEN args[1]
    ELSE IF Split(Locator)[1] = "" THEN GetName(<<LibraryProtocol, Sep>> \o Locator)
    ELSE GetName(Locator)

C2_UnderDir(name) == IF pullDir # <<>> THEN Join(pullDir, name) ELSE name

\* C2 as stated: the destination is the name override, else the second of
\* two positional arguments (locator first, local name second), else the
\* name derived from the locator, joined under the target directory.
C2_Original == "resolve" \in Steps => pullTo = C2_UnderDir(C2_ClaimedName)

\* C2 amended: the destination is the name override when non-empty, else
\* with two positional arguments (local name first, locator last) the first
\* positional argument, else the name derived from the locator; with a
\* target directory the result is that name joined under the directory.
C2_DestinationPriority ==
    /\ "resolve" \in Steps => pullTo = C2_UnderDir(C2_AmendedName)
    /\ "classify" \in Steps => pullFrom = Locator

C2_Witness ==
    /\ "resolve" \in Steps
    /\ Len(args) = 2
    /\ pullImageName = <<>>
    /\ pullDir = <<"dir">>
    /\ pullTo = <<"dir", "out.sif">>
    /\ pullFrom # args[1]

\* a transport no case of the switch accepts
Unsupported(t) ==
    /\ t \notin {LibraryProtocol, "", ShubProtocol, OrasProtocol, HTTPProtocol,
                 HTTPSProtocol}
    /\ IsSupported(t) # t

\* C3 as stated: a run on a locator with an unsupported transport ends
\* fatally with the diagnostic naming that transport, whatever the state of
\* the destination path (here even granted the cache handle and a non-empty
\* reference).
C3_Original ==
    (Unsupported(transport) /\ imgCache = "handle" /\ ref # <<>> /\ Exited) =>
        Fatal(UnsupportedFormat, <<transport>>)

\* C3 amended: a run on a locator with an unsupported transport never
\* invokes a backend and ends fatally; the diagnostic names that exact
\* transport when the run reached the transport switch, and is otherwise
\* the diagnostic of the earlier check that failed (cache handle, empty
\* reference, destination exists).
C3_UnsupportedTransport ==
    Unsupported(Split(Locator)[1]) =>
        /\ calls = <<>>
        /\ Exited => outcome = "fatal"
        /\ (Exited /\ ReachedSwitch) => Fatal(UnsupportedFormat, <<Split(Locator)[1]>>)
        /\ (Exited /\ ~ReachedSwitch) =>
              msg.format \in {CacheHandleFormat, BadURIFormat, AlreadyExistsFormat}
        /\ (Exited /\ msg.format = AlreadyExistsFormat) =>
              (statErr # "ErrNotExist" /\ ~forceOverwrite)

C3_Witness ==
    /\ Fatal(UnsupportedFormat, <<"ftp">>)
    /\ statErr = "nil"
    /\ forceOverwrite

\* the locator is a library one whose normalized reference has a host
C4_HostInReference ==
    /\ Split(Locator)[1] \in {LibraryProtocol, ""}
    /\ NormalizeLibraryRef(Locator).err = "nil"
    /\ NormalizeLibraryRef(Locator).Host # ""

\* C4: on a library or unspecified-transport locator whose normalized
\* reference has a host, with a non-empty --library endpoint, the run never
\* gets past the conflict check (no client configuration, no
\* library.PullToFile), ends fatally, and when it reaches the library edge
\* the diagnostic is the conflict one.
C4_ConflictRejected ==
    (C4_HostInReference /\ pullLibraryURI # "") =>
        /\ calls = <<>>
        /\ pc \notin {"getLibraryClientConfig", "getKeyserverClientOpts",
                      "library.PullToFile"}
        /\ libraryURI = ""
        /\ Exited => outcome = "fatal"
        /\ (Exited /\ ReachedSwitch) => Fatal(ConflictFormat, <<>>)

C4_Witness ==
    /\ Fatal(ConflictFormat, <<>>)
    /\ transport = ""
    /\ libRef.Host = "host.io"
    /\ pullLibraryURI = "https://other"

C6_Adapter(t) ==
    CASE t \in {LibraryProtocol, ""} -> "library"
      [] t = ShubProtocol -> "shub"
      [] t = OrasProtocol -> "oras"
      [] t \in {HTTPProtocol, HTTPSProtocol} -> "net"
      [] OTHER -> "oci"

\* the diagnostics of the checks that come before a backend call
C6_PreDispatchFormats ==
    {CacheHandleFormat, BadURIFormat, AlreadyExistsFormat, MalformedFormat,
     ConflictFormat, LibraryConfigFormat, KeyserverFormat, OrasCredentialsFormat,
     OciCredentialsFormat, UnsupportedFormat}

\* C6: a run makes at most one backend PullToFile call, and the run is over
\* when the call has returned; a call that is made goes to the adapter
\* matching the transport, with the resolved destination; a run that ended
\* without failing a pre-dispatch check made exactly one.
C6_OneMatchingAdapter ==
    /\ Len(calls) <= 1
    /\ Count("invoke") = Len(calls)
    /\ calls # <<>> =>
          /\ Exited
          /\ ~Unsupported(transport)
          /\ calls[1].adapter = C6_Adapter(transport)
          /\ calls[1].pullTo = pullTo
    /\ (Exited /\ ~(outcome = "fatal" /\ msg.format \in C6_PreDispatchFormats)) =>
          Len(calls) = 1

C6_Witness ==
    /\ Len(calls) = 1
    /\ calls[1].adapter = "oras"
    /\ transport = OrasProtocol
    /\ pullErr = "error"
    /\ outcome = "fatal"

\* C7: when the reference body returned by uri.Split is empty, the run has
\* ended fatally with the 'Bad URI' diagnostic naming the locator, whatever
\* the transport, and neither the destination stat nor a backend adapter
\* has been reached.
C7_EmptyReference ==
    ("classify" \in Steps /\ ref = <<>>) =>
        /\ Exited
        /\ Fatal(BadURIFormat, Locator)
        /\ pullFrom = Locator
        /\ statErr = "unset"
        /\ Steps \cap {"resolve", "stat", "switch", "normalize", "invoke"} = {}
        /\ calls = <<>>

C7_Witness ==
    /\ "classify" \in Steps
    /\ ref = <<>>
    /\ transport = ShubProtocol
    /\ Fatal(BadURIFormat, <<ShubProtocol, Sep>>)

\* C8: the endpoint handed to getLibraryClientConfig is the --library
\* override when it is non-empty; otherwise, when the normalized reference
\* has a host, "http://<host>" with --nohttps and "https://<host>" without;
\* otherwise the empty value.
C8_EffectiveLibraryURI ==
    (pc \in {"getLibraryClientConfig", "getKeyserverClientOpts", "library.PullToFile"}
       \/ msg.format \in {LibraryConfigFormat, KeyserverFormat}
       \/ (calls # <<>> /\ calls[1].adapter = "library")) =>
        /\ libRef = NormalizeLibraryRef(Locator)
        /\ pullLibraryURI # "" => libraryURI = pullLibraryURI
        /\ (pullLibraryURI = "" /\ libRef.Host # "" /\ noHTTPS) =>
              libraryURI = "http://" \o libRef.Host
        /\ (pullLibraryURI = "" /\ libRef.Host # "" /\ ~noHTTPS) =>
              libraryURI = "https://" \o libRef.Host
        /\ (pullLibraryURI = "" /\ libRef.Host = "") => libraryURI = ""

C8_Witness ==
    /\ pc = "getLibraryClientConfig"
    /\ pullLibraryURI = ""
    /\ noHTTPS
    /\ libraryURI = "http://host.io"

\* the trace follows the order a rank gives to the steps
C9_Ordered(Rank(_)) ==
    \A i, j \in 1..Len(trace) : i < j => Rank(trace[i]) < Rank(trace[j])

\* the order of the steps in C9 as stated
C9_ClaimedRank(step) ==
    CASE step = "classify" -> 1
      [] step = "normalize" -> 2
      [] step = "resolve" -> 3
      [] step = "stat" -> 4
      [] step = "cache" -> 5
      [] step = "switch" -> 6
      [] step = "invoke" -> 7
      [] step = "report" -> 8

\* the order of the steps in the amended C9
C9_AmendedRank(step) ==
    CASE step = "cache" -> 1
      [] step = "classify" -> 2
      [] step = "resolve" -> 3
      [] step = "stat" -> 4
      [] step = "switch" -> 5
      [] step = "normalize" -> 6
      [] step = "invoke" -> 7
      [] step = "report" -> 8

\* C9 as stated: classification, then normalization, then destination
\* resolution with its existence check, then the cache handle, then
\* selection and invocation of the adapter, then the report.
C9_Original == C9_Ordered(C9_ClaimedRank)

\* C9 amended: the steps of a run happen in the order cache handle,
\* classification, destination resolution, existence check, selection of
\* the adapter by the transport switch, library reference normalization
\* (library edge only), invocation, report; no step is skipped on the way
\* to an invocation, so the cache handle is acquired before the destination
\* is resolved and the library reference is normalized after the existence
\* check.
C9_StepOrder ==
    /\ C9_Ordered(C9_AmendedRank)
    /\ Before("cache", "resolve")
    /\ Before("stat", "normalize")
    /\ "switch" \in Steps => {"cache", "classify", "resolve", "stat"} \subseteq Steps
    /\ "invoke" \in Steps => "switch" \in Steps
    /\ (calls # <<>> /\ calls[1].adapter = "library") => "normalize" \in Steps
    /\ Exited => trace[Len(trace)] = "report"

C9_Witness ==
    trace = <<"cache", "classify", "resolve", "stat", "switch", "normalize",
              "invoke", "report">>

\* C10: once the destination has been stat-ed, the run reaches the
\* transport switch if and only if the overwrite flag is set or the stat
\* reported 'does not exist'; any other stat failure without the flag ends
\* the run with the 'already exists' diagnostic, and the switch is not
\* reached before the stat.
C10_SwitchIffForceOrNotExist ==
    /\ statErr # "unset" =>
          /\ imgCache = "handle" /\ ref # <<>>
          /\ ReachedSwitch <=> (forceOverwrite \/ statErr = "ErrNotExist")
          /\ ~ReachedSwitch => (Exited /\ Fatal(AlreadyExistsFormat, pullTo))
    /\ statErr = "unset" => ~ReachedSwitch
    /\ (imgCache = "handle" /\ "classify" \in Steps /\ ref # <<>> /\ Exited) =>
          statErr # "unset"

C10_Witness ==
    /\ statErr = "EACCES"
    /\ ~forceOverwrite
    /\ Fatal(AlreadyExistsFormat, pullTo)
    /\ ~ReachedSwitch
============================================================================
